---- MODULE Spec2Model ----
(***************************************************************************)
(* Model of src/SelectionAlgorithm.ts: the Cluster entity, the round-based *)
(* ClusteringAlgorithm scheduler with its two cluster-assignment           *)
(* strategies, and the plain RandomAlgorithm scheduler.                    *)
(*                                                                         *)
(* Items are the integers 1..n; item i has index i-1 (ItemIndex), which is *)
(* what the code uses to look up its k-means label.  An item's answers are *)
(* modelled by their number, the only thing the code reads.                *)
(***************************************************************************)
EXTENDS Integers, Sequences, FiniteSets, TLC

(* ------------------------------ bounds --------------------------------- *)
MaxItems == 3
MaxAssignItems == 4
MaxAnswers == 9
MaxCalls == 24
MaxSeen == 3

(* ------------------------- program constants --------------------------- *)
clusterAmount == 4
rounds == <<4, 2, 1>>
maxIterations == 7
null == 0
\* JavaScript's undefined (rounds[i] past the end) and NaN (number + undefined)
Undefined == -1
NaN == -2

VARIABLES
  itemPairs,             \* the item list the scheduler was built from
  clustersIndexes,       \* labels returned by kmeans (kept in SpecAssign only)
  algorithm,             \* which class was constructed
  clusters,              \* ClusteringAlgorithm.clusters
  roundID, neededPreviousRounds, needThisRound, needToGoToNextRound,
  answers,               \* item -> answers.length
  todo,                  \* the caller's todo list
  current,               \* the caller's current item (null before the first answer)
  pc,                    \* position of the caller
  last,                  \* name of the operation performed last
  inTodo,                \* the todo list handed to the last updateToDo call
  sorted,                \* the todo list after line 151, before the anti-repeat swap
  ret,                   \* what the last call returned / observed
  todoLength, iteration  \* RandomAlgorithm fields

vars == <<itemPairs, clustersIndexes, algorithm, clusters, roundID,
          neededPreviousRounds, needThisRound, needToGoToNextRound, answers,
          todo, current, pc, last, inTodo, sorted, ret, todoLength, iteration>>

(* ------------------------------ helpers -------------------------------- *)
Range(s) == {s[k] : k \in 1..Len(s)}

MaxLen == IF MaxItems > MaxAssignItems THEN MaxItems ELSE MaxAssignItems

\* the permutations of 1..m, tabulated once for every list length in use
PermTable ==
  [m \in 0..MaxLen |->
     {p \in [1..m -> 1..m] : \A a, b \in 1..m : p[a] = p[b] => a = b}]

Perms(m) == PermTable[m]

RECURSIVE SumSeq(_)
SumSeq(s) == IF s = <<>> THEN 0 ELSE Head(s) + SumSeq(Tail(s))

ItemIndex(i) == i - 1

\* number + number in JavaScript, where either side may be undefined or NaN
JsAdd(a, b) == IF a \in {Undefined, NaN} \/ b \in {Undefined, NaN} THEN NaN ELSE a + b
\* a > b in JavaScript: false as soon as b is NaN
JsGt(a, b) == b \notin {Undefined, NaN} /\ a \notin {Undefined, NaN} /\ a > b
\* a === b for a number a
JsStrictEq(a, b) == b \notin {Undefined, NaN} /\ a \notin {Undefined, NaN} /\ a = b
\* rounds[i] with a 0-based index
RoundsAt(i) == IF i >= 0 /\ i < Len(rounds) THEN rounds[i + 1] ELSE Undefined

(* ------------------------ SelectionAlgorithm --------------------------- *)
\* every order the random sort keys can produce
shuffleArray(s) == {[k \in 1..Len(s) |-> s[p[k]]] : p \in Perms(Len(s))}

(* ------------------------------ Cluster -------------------------------- *)
Cluster(ID, items) ==
  [ID |-> ID, itemPairs |-> items, sortingID |-> ID, timesSeen |-> 0]

\* increaseSortingID stepping the other way: the first cluster goes to the back
increaseSortingIDBackwards(c, numberOfClusters) ==
  [c EXCEPT !.sortingID = (c.sortingID + numberOfClusters - 1) % numberOfClusters]

increaseSortingID(c, numberOfClusters) ==
  [c EXCEPT !.sortingID = (c.sortingID + 1) % numberOfClusters]

\* allWordsSeenOnce with ">= 1" for "=== 1": members ahead of the pass count
allWordsSeenOnceAtLeast(c, ans) ==
  LET counts == [k \in 1..Len(c.itemPairs) |-> ans[c.itemPairs[k]]]
      ok(numberOfAnswers) == numberOfAnswers - c.timesSeen >= 1
  IN  Len(SelectSeq(counts, ok)) = Len(c.itemPairs)

allWordsSeenOnce(c, ans) ==
  LET counts == [k \in 1..Len(c.itemPairs) |-> ans[c.itemPairs[k]]]
      ok(numberOfAnswers) == numberOfAnswers - c.timesSeen = 1
  IN  Len(SelectSeq(counts, ok)) = Len(c.itemPairs)

\* the cluster after the call; the value returned is its timesSeen
getTimesSeen(c, ans) ==
  IF allWordsSeenOnce(c, ans) THEN [c EXCEPT !.timesSeen = @ + 1] ELSE c

(* ------------------------ ClusteringAlgorithm -------------------------- *)
\* index in cs of the first cluster holding the item, 0 when there is none
getClusterOfItem(cs, item) ==
  LET hits == {k \in 1..Len(cs) : item \in Range(cs[k].itemPairs)}
  IN  IF hits = {} THEN 0 ELSE CHOOSE k \in hits : \A h \in hits : k <= h

sortKey(cs, item) == cs[getClusterOfItem(cs, item)].sortingID

\* Array.prototype.sort is stable: items of equal sortingID keep their order
RECURSIVE insertSorted(_, _, _)
insertSorted(cs, s, x) ==
  IF s = <<>> THEN <<x>>
  ELSE IF sortKey(cs, s[Len(s)]) - sortKey(cs, x) <= 0
       THEN Append(s, x)
       ELSE Append(insertSorted(cs, SubSeq(s, 1, Len(s) - 1), x), s[Len(s)])

\* sortTodoList with the comparator's operands exchanged: descending order
RECURSIVE sortTodoListDescending(_, _)
sortTodoListDescending(cs, s) ==
  IF s = <<>> THEN <<>>
  ELSE LET rest == sortTodoListDescending(cs, SubSeq(s, 1, Len(s) - 1))
           x == s[Len(s)]
           before == SelectSeq(rest, LAMBDA y : sortKey(cs, y) >= sortKey(cs, x))
           after == SelectSeq(rest, LAMBDA y : sortKey(cs, y) < sortKey(cs, x))
       IN  before \o <<x>> \o after

RECURSIVE sortTodoList(_, _)
sortTodoList(cs, s) ==
  IF s = <<>> THEN <<>>
  ELSE insertSorted(cs, sortTodoList(cs, SubSeq(s, 1, Len(s) - 1)), s[Len(s)])

\* endOfSession comparing roundID, not roundID + 1, with rounds.length
endOfSessionOffByOne(s, ans, rid) ==
  LET totalTimesSeen == SumSeq(rounds)
      counts == [k \in 1..Len(s) |-> ans[s[k]]]
      done(a) == a = totalTimesSeen
  IN  Len(SelectSeq(counts, done)) = Len(s) /\ rid = Len(rounds)

endOfSession(s, ans, rid) ==
  LET totalTimesSeen == SumSeq(rounds)
      counts == [k \in 1..Len(s) |-> ans[s[k]]]
      done(a) == a = totalTimesSeen
  IN  Len(SelectSeq(counts, done)) = Len(s) /\ rid + 1 = Len(rounds)

\* round advancement with "=" for "+=" on neededPreviousRounds
advanceRoundReset(rid, npr, ntr, ntg) ==
  [roundID |-> rid + 1,
   neededPreviousRounds |-> RoundsAt(rid),
   needThisRound |-> RoundsAt(rid + 1),
   needToGoToNextRound |-> JsAdd(ntg, RoundsAt(rid + 1))]

\* lines 124-129: the four progress counters after a round advancement
advanceRound(rid, npr, ntr, ntg) ==
  [roundID |-> rid + 1,
   neededPreviousRounds |-> JsAdd(npr, RoundsAt(rid)),
   needThisRound |-> RoundsAt(rid + 1),
   needToGoToNextRound |-> JsAdd(ntg, RoundsAt(rid + 1))]

\* updateToDo without the swap of lines 154-163
antiRepeatNoSwap(s, previousItem) == s

\* the swap without line 159: todo[1] keeps the second item
antiRepeatOverwrite(s, previousItem) ==
  IF s # <<>> /\ s[1] = previousItem
  THEN IF Len(s) >= 2 THEN [s EXCEPT ![1] = s[2]] ELSE s
  ELSE s

\* lines 153-163: the same item is not shown twice back-to-back
antiRepeat(s, previousItem) ==
  IF s # <<>> /\ s[1] = previousItem
  THEN IF Len(s) >= 2 THEN [s EXCEPT ![1] = s[2], ![2] = s[1]] ELSE s
  ELSE s

(* --------------------- cluster-assignment strategies ------------------- *)
\* distinct labels in order of first occurrence (filter with indexOf)
RECURSIVE distinctLabels(_)
distinctLabels(ls) ==
  IF ls = <<>> THEN <<>>
  ELSE LET rest == distinctLabels(SubSeq(ls, 1, Len(ls) - 1))
           x == ls[Len(ls)]
       IN  IF x \in Range(rest) THEN rest ELSE Append(rest, x)

\* labels is the primitive's result, labels[k] being clustersIndexes[k-1]
labelOf(labels, item) ==
  IF ItemIndex(item) + 1 \in 1..Len(labels) THEN labels[ItemIndex(item) + 1] ELSE Undefined

KMeansComputeClusters(items, labels) ==
  LET ids == distinctLabels(labels)
  IN  [k \in 1..Len(ids) |->
         Cluster(ids[k], SelectSeq(items, LAMBDA it : labelOf(labels, it) = ids[k]))]

RECURSIVE sumFirst(_, _)
sumFirst(s, k) == IF k = 0 THEN 0 ELSE s[k] + sumFirst(s, k - 1)

\* the slicing loop without line 334: totalAddedToCluster stays 0
RandomComputeClustersNoAdvance(items, labels, shuffledItemPairs) ==
  LET kmeansClusters == KMeansComputeClusters(items, labels)
      neededClusterLengths == [k \in 1..Len(kmeansClusters) |-> Len(kmeansClusters[k].itemPairs)]
  IN  [k \in 1..Len(neededClusterLengths) |->
         Cluster(k - 1, SubSeq(shuffledItemPairs, 1, neededClusterLengths[k]))]

\* the slicing loop reading neededClusterLengths from its end
RandomComputeClustersReversed(items, labels, shuffledItemPairs) ==
  LET kmeansClusters == KMeansComputeClusters(items, labels)
      n == Len(kmeansClusters)
      neededClusterLengths == [k \in 1..n |-> Len(kmeansClusters[n + 1 - k].itemPairs)]
  IN  [k \in 1..n |->
         Cluster(k - 1,
                 SubSeq(shuffledItemPairs,
                        sumFirst(neededClusterLengths, k - 1) + 1,
                        sumFirst(neededClusterLengths, k - 1) + neededClusterLengths[k]))]

RandomComputeClusters(items, labels, shuffledItemPairs) ==
  LET kmeansClusters == KMeansComputeClusters(items, labels)
      neededClusterLengths == [k \in 1..Len(kmeansClusters) |-> Len(kmeansClusters[k].itemPairs)]
  IN  [k \in 1..Len(neededClusterLengths) |->
         Cluster(k - 1,
                 SubSeq(shuffledItemPairs,
                        sumFirst(neededClusterLengths, k - 1) + 1,
                        sumFirst(neededClusterLengths, k - 1) + neededClusterLengths[k]))]

ItemLists(max) == {[k \in 1..m |-> k] : m \in 1..max}
LabelVectors(m) == [1..m -> 0..(clusterAmount - 1)]

\* all cluster lists the two constructors can produce for an item list
Constructions(items) ==
  {<<"KMeans", ls, KMeansComputeClusters(items, ls)>> : ls \in LabelVectors(Len(items))}
  \cup
  {<<"Random", x[1], RandomComputeClusters(items, x[1], x[2])>> :
      x \in LabelVectors(Len(items)) \X shuffleArray(items)}

(* ---------------------- clustering session: Spec ----------------------- *)
\* fields the constructor of ClusteringAlgorithm sets, and the caller's state
Fresh(items) ==
  /\ itemPairs = items
  /\ roundID = 0
  /\ neededPreviousRounds = 0
  /\ needThisRound = RoundsAt(0)
  /\ needToGoToNextRound = RoundsAt(0)
  /\ answers = [i \in Range(items) |-> 0]
  /\ todo = items
  /\ current = null
  /\ last = "new"
  /\ inTodo = <<>>
  /\ sorted = <<>>
  /\ ret = <<>>
  /\ todoLength = 0
  /\ iteration = 0

\* state right after new KMeansClusteringAlgorithm / RandomClusteringAlgorithm
Init ==
  /\ \E items \in ItemLists(MaxItems) :
        /\ Fresh(items)
        /\ \E c \in Constructions(items) :
              /\ algorithm = c[1]
              /\ clusters = c[3]
  /\ clustersIndexes = <<>>
  /\ pc = "start"

\* updateToDo, lines 116-121: first call of the session
Bootstrap ==
  /\ pc = "start"
  /\ (Len(clusters) = 0 \/ current = null)
  /\ todo' = sortTodoList(clusters, todo)
  /\ inTodo' = todo
  /\ sorted' = todo'
  /\ ret' = todo'
  /\ pc' = "present"
  /\ last' = "bootstrap"
  /\ UNCHANGED <<itemPairs, clustersIndexes, algorithm, clusters, roundID,
                 neededPreviousRounds, needThisRound, needToGoToNextRound,
                 answers, current, todoLength, iteration>>

\* the caller: the head is presented and answered, then moved to the tail
Answer ==
  /\ pc = "present"
  /\ todo # <<>>
  /\ answers[Head(todo)] < MaxAnswers
  /\ current' = Head(todo)
  /\ answers' = [answers EXCEPT ![Head(todo)] = @ + 1]
  /\ todo' = Append(Tail(todo), Head(todo))
  /\ pc' = "answered"
  /\ last' = "answer"
  /\ UNCHANGED <<itemPairs, clustersIndexes, algorithm, clusters, roundID,
                 neededPreviousRounds, needThisRound, needToGoToNextRound,
                 inTodo, sorted, ret, todoLength, iteration>>

\* updateToDo, lines 123-170: steady state
updateToDo ==
  /\ pc = "answered"
  /\ Len(clusters) # 0 /\ current # null
  /\ LET now == [roundID |-> roundID,
                 neededPreviousRounds |-> neededPreviousRounds,
                 needThisRound |-> needThisRound,
                 needToGoToNextRound |-> needToGoToNextRound]
         p == IF JsGt(answers[current], needToGoToNextRound)
              THEN advanceRound(roundID, neededPreviousRounds, needThisRound,
                                needToGoToNextRound)
              ELSE now
         ci  == getClusterOfItem(clusters, current)
         allSeenOnce == allWordsSeenOnce(clusters[ci], answers)
         seen == getTimesSeen(clusters[ci], answers)
         cs1 == [clusters EXCEPT ![ci] = seen]
         timesSeenThisRound == seen.timesSeen - p.neededPreviousRounds
         cs2 == IF JsStrictEq(timesSeenThisRound, p.needThisRound)
                THEN [k \in 1..Len(cs1) |-> increaseSortingID(cs1[k], Len(cs1))]
                ELSE cs1
         previousItem == todo[Len(todo)]
     IN  /\ ci # 0
         /\ roundID' = p.roundID
         /\ neededPreviousRounds' = p.neededPreviousRounds
         /\ needThisRound' = p.needThisRound
         /\ needToGoToNextRound' = p.needToGoToNextRound
         /\ clusters' = cs2
         /\ \E sh \in (IF allSeenOnce THEN shuffleArray(todo) ELSE {todo}) :
               /\ sorted' = sortTodoList(cs2, sh)
               /\ todo' = IF endOfSession(antiRepeat(sorted', previousItem), answers, p.roundID)
                          THEN <<>>
                          ELSE antiRepeat(sorted', previousItem)
  /\ inTodo' = todo
  /\ ret' = todo'
  /\ pc' = IF todo' = <<>> THEN "finished" ELSE "present"
  /\ last' = "updateToDo"
  /\ UNCHANGED <<itemPairs, clustersIndexes, algorithm, answers, current,
                 todoLength, iteration>>

Next == Bootstrap \/ Answer \/ updateToDo

Spec == Init /\ [][Next]_vars

(* ------------------- cluster assignment: SpecAssign -------------------- *)
InitAssign ==
  /\ \E items \in ItemLists(MaxAssignItems) : Fresh(items)
  /\ clusters = <<>>
  /\ clustersIndexes = <<>>
  /\ algorithm = "none"
  /\ pc = "new"

\* new KMeansClusteringAlgorithm(itemPairs)
NewKMeans ==
  /\ pc = "new"
  /\ \E ls \in LabelVectors(Len(itemPairs)) :
        /\ clustersIndexes' = ls
        /\ clusters' = KMeansComputeClusters(itemPairs, ls)
  /\ algorithm' = "KMeans"
  /\ pc' = "start"
  /\ last' = "computeClusters"
  /\ UNCHANGED <<itemPairs, roundID, neededPreviousRounds, needThisRound,
                 needToGoToNextRound, answers, todo, current, inTodo, sorted,
                 ret, todoLength, iteration>>

\* new RandomClusteringAlgorithm(itemPairs); ret keeps the shuffled item list
NewRandom ==
  /\ pc = "new"
  /\ \E ls \in LabelVectors(Len(itemPairs)), sh \in shuffleArray(itemPairs) :
        /\ clustersIndexes' = ls
        /\ clusters' = RandomComputeClusters(itemPairs, ls, sh)
        /\ ret' = sh
  /\ algorithm' = "Random"
  /\ pc' = "start"
  /\ last' = "computeClusters"
  /\ UNCHANGED <<itemPairs, roundID, neededPreviousRounds, needThisRound,
                 needToGoToNextRound, answers, todo, current, inTodo, sorted,
                 todoLength, iteration>>

NextAssign == NewKMeans \/ NewRandom

SpecAssign == InitAssign /\ [][NextAssign]_vars

(* ----------------------- Cluster alone: SpecUnit ----------------------- *)
\* one cluster over any non-empty subset of the items, any timesSeen and any
\* answer counts
InitUnit ==
  /\ \E items \in ItemLists(MaxItems) :
        /\ itemPairs = items
        /\ \E members \in (SUBSET Range(items)) \ {{}} :
              \E ts \in 0..MaxSeen :
                 clusters = <<[Cluster(0, SelectSeq(items, LAMBDA it : it \in members))
                                 EXCEPT !.timesSeen = ts]>>
        /\ answers \in [Range(items) -> 0..(MaxSeen + 2)]
        /\ todo = items
  /\ clustersIndexes = <<>>
  /\ algorithm = "none"
  /\ roundID = 0
  /\ neededPreviousRounds = 0
  /\ needThisRound = RoundsAt(0)
  /\ needToGoToNextRound = RoundsAt(0)
  /\ current = null
  /\ pc = "unit"
  /\ last = "new"
  /\ inTodo = <<>>
  /\ sorted = <<>>
  /\ ret = <<>>
  /\ todoLength = 0
  /\ iteration = 0

CallAllWordsSeenOnce ==
  /\ pc = "unit"
  /\ ret' = allWordsSeenOnce(clusters[1], answers)
  /\ last' = "allWordsSeenOnce"
  /\ UNCHANGED <<itemPairs, clustersIndexes, algorithm, clusters, roundID,
                 neededPreviousRounds, needThisRound, needToGoToNextRound,
                 answers, todo, current, pc, inTodo, sorted, todoLength,
                 iteration>>

CallGetTimesSeen ==
  /\ pc = "unit"
  /\ clusters' = <<getTimesSeen(clusters[1], answers)>>
  /\ ret' = clusters'[1].timesSeen
  /\ last' = "getTimesSeen"
  /\ UNCHANGED <<itemPairs, clustersIndexes, algorithm, roundID,
                 neededPreviousRounds, needThisRound, needToGoToNextRound,
                 answers, todo, current, pc, inTodo, sorted, todoLength,
                 iteration>>

NextUnit == CallAllWordsSeenOnce \/ CallGetTimesSeen

SpecUnit == InitUnit /\ [][NextUnit]_vars

(* --------------------- RandomAlgorithm: SpecPlain ---------------------- *)
\* line 370 without the "- 1"
exhaustedOffByOne(iter, len) == iter = maxIterations * len

\* line 370, evaluated after the increment of line 369
exhausted(iter, len) == iter - 1 = maxIterations * len

\* state right after new RandomAlgorithm(todo)
InitPlain ==
  /\ \E items \in ItemLists(MaxItems) :
        /\ itemPairs = items
        /\ answers = [i \in Range(items) |-> 0]
        /\ todo = items
        /\ todoLength = Len(items)
  /\ iteration = 0
  /\ clusters = <<>>
  /\ clustersIndexes = <<>>
  /\ algorithm = "RandomAlgorithm"
  /\ roundID = 0
  /\ neededPreviousRounds = 0
  /\ needThisRound = 0
  /\ needToGoToNextRound = 0
  /\ current = null
  /\ pc = "plain"
  /\ last = "new"
  /\ inTodo = <<>>
  /\ sorted = <<>>
  /\ ret = <<>>

\* line 366 testing the counter after, not before, the call's increment
shouldShuffleOffByOne(iter, len) == iter = 0 \/ iter % len = 1

\* line 366
shouldShuffle(iter, len) == iter = 0 \/ iter % len = 0

\* RandomAlgorithm.updateToDo, lines 365-374.  The caller hands in the list it
\* got back, or the item list again once that list came back empty.
RandomUpdateToDo ==
  /\ algorithm = "RandomAlgorithm"
  /\ iteration < MaxCalls
  /\ inTodo' = IF todo = <<>> THEN itemPairs ELSE todo
  /\ \E sh \in (IF shouldShuffle(iteration, todoLength)
                THEN shuffleArray(inTodo') ELSE {inTodo'}) :
        /\ sorted' = sh
        /\ todo' = IF exhausted(iteration + 1, todoLength) THEN <<>> ELSE sh
  /\ iteration' = iteration + 1
  /\ ret' = todo'
  /\ last' = "updateToDo"
  /\ UNCHANGED <<itemPairs, clustersIndexes, algorithm, clusters, roundID,
                 neededPreviousRounds, needThisRound, needToGoToNextRound,
                 answers, current, pc, todoLength>>

NextPlain == RandomUpdateToDo

SpecPlain == InitPlain /\ [][NextPlain]_vars

(* ------------------- either scheduler: SpecSchedulers ------------------ *)
\* the session holds a clustering scheduler or a RandomAlgorithm
InitSchedulers == Init \/ InitPlain

NextSchedulers == Bootstrap \/ Answer \/ updateToDo \/ RandomUpdateToDo

SpecSchedulers == InitSchedulers /\ [][NextSchedulers]_vars

(* ------------- a call with an item of no cluster: SpecMisuse ----------- *)
\* an item that was never handed to computeClusters
unknownItem == Len(itemPairs) + 1

\* updateToDo, lines 123-135, called with an item no cluster holds and any
\* number of answers: the round advancement of lines 124-129 runs, then
\* getClusterOfItem returns undefined and line 135 throws a TypeError
UnknownItem ==
  /\ pc \in {"start", "present"}
  /\ Len(clusters) # 0
  /\ getClusterOfItem(clusters, unknownItem) = 0
  /\ \E numberOfAnswers \in 0..MaxAnswers :
        LET now == [roundID |-> roundID,
                    neededPreviousRounds |-> neededPreviousRounds,
                    needThisRound |-> needThisRound,
                    needToGoToNextRound |-> needToGoToNextRound]
            p == IF JsGt(numberOfAnswers, needToGoToNextRound)
                 THEN advanceRound(roundID, neededPreviousRounds, needThisRound,
                                   needToGoToNextRound)
                 ELSE now
        IN  /\ roundID' = p.roundID
            /\ neededPreviousRounds' = p.neededPreviousRounds
            /\ needThisRound' = p.needThisRound
            /\ needToGoToNextRound' = p.needToGoToNextRound
  /\ current' = unknownItem
  /\ inTodo' = todo
  /\ pc' = "failed"
  /\ last' = "unknownItem"
  /\ UNCHANGED <<itemPairs, clustersIndexes, algorithm, clusters, answers,
                 todo, sorted, ret, todoLength, iteration>>

NextMisuse == Bootstrap \/ Answer \/ updateToDo \/ UnknownItem

SpecMisuse == Init /\ [][NextMisuse]_vars

(* ------------------ the first call alone: SpecBoot --------------------- *)
\* a scheduler right after construction and a todo list in any order
InitBoot ==
  /\ \E items \in ItemLists(MaxItems) :
        /\ Fresh(items)
        /\ \E c \in Constructions(items) :
              /\ algorithm = c[1]
              /\ clusters = c[3]
  /\ clustersIndexes = <<>>
  /\ pc = "order"

\* the caller's todo list is in an order of the caller's choosing
Order ==
  /\ pc = "order"
  /\ todo' \in shuffleArray(todo)
  /\ pc' = "start"
  /\ last' = "order"
  /\ UNCHANGED <<itemPairs, clustersIndexes, algorithm, clusters, roundID,
                 neededPreviousRounds, needThisRound, needToGoToNextRound,
                 answers, current, inTodo, sorted, ret, todoLength, iteration>>

NextBoot == Order \/ Bootstrap

SpecBoot == InitBoot /\ [][NextBoot]_vars

(* ============================== claims ================================= *)
totalTimesSeen == SumSeq(rounds)
Items == Range(itemPairs)
previousHead == inTodo[Len(inTodo)]
Distinct(q) == \A a, b \in 1..Len(q) : q[a] = q[b] => a = b

\* the clusters carry the ids 0..numClusters-1, each once (no label unused)
GapFree ==
  /\ \A k \in 1..Len(clusters) : clusters[k].ID \in 0..(Len(clusters) - 1)
  /\ \A k, l \in 1..Len(clusters) : clusters[k].ID = clusters[l].ID => k = l

\* C1: session completion, for any partition into non-empty clusters with the
\* ids 0..numClusters-1.  Under the session protocol the updateToDo call
\* returns the empty list exactly on the answer that leaves no item with fewer
\* than sum(rounds) answers, and until then the item it puts at the head is
\* still pending, so that every answer brings the session one step closer to
\* the call that ends it, which is the one for the last pending item.
SessionCompletion ==
  (GapFree /\ last = "updateToDo") =>
    /\ (todo = <<>>) <=> (\A i \in Items : answers[i] >= totalTimesSeen)
    /\ todo # <<>> => answers[Head(todo)] < totalTimesSeen

\* C2: prescribed rehearsal count.  In a session over clusters with the ids
\* 0..numClusters-1, no item's number of answers ever exceeds sum(rounds).
PrescribedRehearsalCount ==
  GapFree => \A i \in Items : answers[i] <= totalTimesSeen

\* C3: termination condition.  A call of updateToDo returns the empty list if
\* and only if every item of the list has sum(rounds) answers and roundID is
\* the last round index.
TerminationCondition ==
  last \in {"bootstrap", "updateToDo"} =>
    ((ret = <<>>) <=>
       /\ \A i \in Range(inTodo) : answers[i] = totalTimesSeen
       /\ roundID + 1 = Len(rounds))

TerminationWitness ==
  /\ last = "updateToDo"
  /\ ret = <<>>
  /\ Len(inTodo) >= 3
  /\ Len(clusters) >= 2

\* C4: anti-repeat.  A steady-state call on a list of two or more distinct
\* items never returns the item shown last (the tail of the list handed in) at
\* the head; on a list of one item that item stays at the head.
AntiRepeat ==
  (last = "updateToDo" /\ Distinct(inTodo) /\ ret # <<>>) =>
    /\ Len(inTodo) >= 2 => ret[1] # previousHead
    /\ Len(inTodo) = 1 => ret[1] = inTodo[1]

AntiRepeatWitness ==
  /\ last = "updateToDo"
  /\ Len(inTodo) >= 2
  /\ Distinct(inTodo)
  /\ sorted[1] = previousHead
  /\ ret # <<>>
  /\ ret[2] = previousHead

SortingIDDomain ==
  \A k \in 1..Len(clusters) : clusters[k].sortingID \in 0..(Len(clusters) - 1)

\* C7: partition.  The clusters a strategy returns hold every input item
\* exactly once, hold nothing else, and none is empty.
Partition ==
  pc = "start" =>
    /\ \A i \in Items :
         Cardinality({x \in {<<k, j>> : k \in 1..Len(clusters), j \in 1..MaxLen} :
                        /\ x[2] <= Len(clusters[x[1]].itemPairs)
                        /\ clusters[x[1]].itemPairs[x[2]] = i}) = 1
    /\ \A k \in 1..Len(clusters) :
         /\ clusters[k].itemPairs # <<>>
         /\ Range(clusters[k].itemPairs) \subseteq Items

PartitionWitness ==
  /\ pc = "start"
  /\ algorithm = "Random"
  /\ Len(itemPairs) = clusterAmount
  /\ Len(clusters) = 2
  /\ Len(clusters[1].itemPairs) = 1
  /\ ret # itemPairs

\* C8: cluster count and ids (on item lists of at least K items, where K
\* non-empty clusters exist).  A strategy returns exactly K clusters, with the
\* ids 0..K-1.
ClusterCountAndIds ==
  (pc = "start" /\ Len(itemPairs) >= clusterAmount) =>
    /\ Len(clusters) = clusterAmount
    /\ {clusters[k].ID : k \in 1..Len(clusters)} = 0..(clusterAmount - 1)

\* C9: lockstep pass detection.  allWordsSeenOnce returns true if and only if
\* every member has exactly timesSeen + 1 answers, and changes nothing.
LockstepPassDetection ==
  [][last' = "allWordsSeenOnce" =>
       /\ ret' = (\A i \in Range(clusters[1].itemPairs) :
                    answers[i] - clusters[1].timesSeen = 1)
       /\ clusters' = clusters
       /\ answers' = answers]_vars

LockstepWitness ==
  /\ last = "allWordsSeenOnce"
  /\ ret = FALSE
  /\ Len(clusters[1].itemPairs) >= 2
  /\ \E i, j \in Range(clusters[1].itemPairs) :
        /\ answers[i] - clusters[1].timesSeen = 1
        /\ answers[j] - clusters[1].timesSeen >= 2

\* C10: plain scheduler exhaustion.  Of the calls of RandomAlgorithm.updateToDo
\* on the same non-empty items, the first maxIterations * todoLength return a
\* non-empty list and the next one returns the empty list.
PlainExhaustion ==
  last = "updateToDo" =>
    /\ iteration <= maxIterations * todoLength => ret # <<>>
    /\ iteration = maxIterations * todoLength + 1 => ret = <<>>

PlainExhaustionWitness ==
  /\ last = "updateToDo"
  /\ todoLength = 3
  /\ iteration = 22
  /\ ret = <<>>

\* C11: unknown item is an error.  A steady-state call with an item of no
\* cluster fails, and the failed call leaves roundID, neededPreviousRounds,
\* needThisRound, needToGoToNextRound and every cluster's timesSeen and
\* sortingID as they were.
UnknownItemIsError ==
  [][last' = "unknownItem" =>
       /\ pc' = "failed"
       /\ UNCHANGED <<roundID, neededPreviousRounds, needThisRound,
                      needToGoToNextRound, clusters>>]_vars

\* the todo list q is in non-decreasing order of its items' cluster sortingID
SortedBySortingID(cs, q) ==
  \A a, b \in 1..Len(q) : a < b => sortKey(cs, q[a]) <= sortKey(cs, q[b])

IsPermutation(q, r) ==
  /\ Len(q) = Len(r)
  /\ \A x \in Range(q) \cup Range(r) :
       Cardinality({k \in 1..Len(q) : q[k] = x}) = Cardinality({k \in 1..Len(r) : r[k] = x})

\* items of equal sortingID are in q in the order they have in r
TiesKeepOrder(cs, q, r) ==
  \A a, b \in 1..Len(r) :
    (a < b /\ sortKey(cs, r[a]) = sortKey(cs, r[b])) =>
      \E c, d \in 1..Len(q) : c < d /\ q[c] = r[a] /\ q[d] = r[b]

\* C12: bootstrap case.  A call with currentItemPair = null returns the items
\* of the list it was given in ascending order of their cluster's sortingID,
\* items of one sortingID in the order given (no shuffle, no swap, never the
\* empty list), and changes no counter and no cluster.
BootstrapCase ==
  [][last' = "bootstrap" =>
       /\ IsPermutation(ret', todo)
       /\ SortedBySortingID(clusters, ret')
       /\ TiesKeepOrder(clusters, ret', todo)
       /\ todo' = ret'
       /\ UNCHANGED <<roundID, neededPreviousRounds, needThisRound,
                      needToGoToNextRound, clusters>>]_vars

BootstrapWitness ==
  /\ last = "bootstrap"
  /\ Len(clusters) >= 2
  /\ Len(inTodo) = 3
  /\ ret # inTodo
  /\ ret[3] # inTodo[3]
  /\ \E a, b \in 1..3 : a # b /\ sortKey(clusters, ret[a]) = sortKey(clusters, ret[b])

\* the step is an updateToDo call that takes the branch of lines 140-142
Rotates ==
  /\ last' = "updateToDo"
  /\ LET ci == getClusterOfItem(clusters, current)
     IN  JsStrictEq(getTimesSeen(clusters[ci], answers).timesSeen - neededPreviousRounds',
                    needThisRound')

\* the sortingIDs of cs are 0..numClusters-1, each once
PermutationOfPriorities(cs) ==
  /\ {cs[k].sortingID : k \in 1..Len(cs)} = 0..(Len(cs) - 1)
  /\ \A k, l \in 1..Len(cs) : cs[k].sortingID = cs[l].sortingID => k = l

\* C13: round-robin rotation.  When updateToDo rotates clusters whose
\* sortingIDs are 0..numClusters-1, the cluster with sortingID 0 gets the
\* largest sortingID of all and the other clusters keep their relative order.
RotationMovesFirstToBack ==
  [][(Rotates /\ PermutationOfPriorities(clusters)) =>
       \A k \in 1..Len(clusters) :
         clusters[k].sortingID = 0 =>
           /\ \A l \in 1..Len(clusters) :
                l # k => clusters'[k].sortingID > clusters'[l].sortingID
           /\ \A j, l \in (1..Len(clusters)) \ {k} :
                clusters[j].sortingID < clusters[l].sortingID =>
                  clusters'[j].sortingID < clusters'[l].sortingID]_vars

\* C13 as amended: a rotation adds 1 modulo numClusters to every sortingID, so
\* among sortingIDs 0..numClusters-1 the cluster that was last moves to the
\* front and every other cluster, the first one included, moves one place
\* back; a step that does not rotate changes no sortingID.
RotationMovesLastToFront ==
  [][/\ Rotates =>
          /\ Len(clusters') = Len(clusters)
          /\ \A k \in 1..Len(clusters) :
               /\ clusters'[k].sortingID = (clusters[k].sortingID + 1) % Len(clusters)
               /\ PermutationOfPriorities(clusters) =>
                    /\ clusters[k].sortingID = Len(clusters) - 1 =>
                         clusters'[k].sortingID = 0
                    /\ clusters[k].sortingID < Len(clusters) - 1 =>
                         clusters'[k].sortingID = clusters[k].sortingID + 1
     /\ ~Rotates =>
          /\ Len(clusters') = Len(clusters)
          /\ \A k \in 1..Len(clusters) :
               clusters'[k].sortingID = clusters[k].sortingID]_vars

RotationWitness ==
  /\ last = "updateToDo"
  /\ Len(clusters) = 3
  /\ GapFree
  /\ \A k \in 1..3 : clusters[k].sortingID = (clusters[k].ID + 1) % 3
  /\ \E k \in 1..3 : clusters[k].timesSeen = rounds[1]

\* C14: plain scheduler shuffle timing and frame.  Every call of
\* RandomAlgorithm.updateToDo adds 1 to iteration; a call whose counter before
\* the call is neither 0 nor a multiple of todoLength returns the list it was
\* given, item for item; on the other calls the list is a permutation of the
\* one given before the exhaustion test empties it.
PlainShuffleTiming ==
  [][last' = "updateToDo" =>
       /\ iteration' = iteration + 1
       /\ IsPermutation(sorted', inTodo')
       /\ (iteration # 0 /\ iteration % todoLength # 0) =>
            /\ sorted' = inTodo'
            /\ iteration # maxIterations * todoLength => ret' = inTodo']_vars

PlainShuffleWitness ==
  /\ last = "updateToDo"
  /\ todoLength = 3
  /\ iteration = 2 * todoLength + 1
  /\ ret # <<>>
  /\ ret # inTodo

\* the item lists of cs one after the other
RECURSIVE Flatten(_)
Flatten(cs) ==
  IF cs = <<>> THEN <<>>
  ELSE Flatten(SubSeq(cs, 1, Len(cs) - 1)) \o cs[Len(cs)].itemPairs

\* the items carrying the label l, counted on the label vector itself
LabelCount(l) == Cardinality({k \in 1..Len(clustersIndexes) : clustersIndexes[k] = l})

\* C15: size-matched random clustering.  RandomClusteringAlgorithm returns as
\* many clusters as the label vector has distinct labels; its i-th cluster has
\* as many members as the i-th cluster of the vector-based clustering (the one
\* of the i-th distinct label), and the clusters are consecutive slices of the
\* shuffled item list.
SizeMatchedRandom ==
  (pc = "start" /\ algorithm = "Random") =>
    LET kmeansClusters == KMeansComputeClusters(itemPairs, clustersIndexes)
    IN  /\ Len(clusters) = Len(kmeansClusters)
        /\ Len(clusters) = Cardinality(Range(clustersIndexes))
        /\ \A k \in 1..Len(clusters) :
             /\ Len(clusters[k].itemPairs) = Len(kmeansClusters[k].itemPairs)
             /\ Len(clusters[k].itemPairs) = LabelCount(kmeansClusters[k].ID)
             /\ clusters[k].ID = k - 1
        /\ Flatten(clusters) = ret

SizeMatchedWitness ==
  /\ pc = "start"
  /\ algorithm = "Random"
  /\ Len(itemPairs) = clusterAmount
  /\ Len(clusters) = 3
  /\ Len(clusters[1].itemPairs) = 1
  /\ Len(clusters[2].itemPairs) = 2
  /\ ret # itemPairs
  /\ clusters # KMeansComputeClusters(itemPairs, clustersIndexes)

\* C16: round index stays inside the schedule.  In a session over clusters
\* with the ids 0..numClusters-1, roundID is an index of rounds and
\* needThisRound and needToGoToNextRound are positive numbers.
RoundIndexInSchedule ==
  GapFree =>
    /\ roundID >= 0
    /\ roundID <= Len(rounds) - 1
    /\ needThisRound > 0
    /\ needToGoToNextRound > 0

\* C17: lockstep within a cluster.  In a session over clusters with the ids
\* 0..numClusters-1, the answer counts of two members of a cluster differ by
\* at most 1 and each lies between the cluster's timesSeen and timesSeen + 1.
LockstepWithinCluster ==
  GapFree =>
    \A k \in 1..Len(clusters) :
      \A i, j \in Range(clusters[k].itemPairs) :
        /\ answers[i] - answers[j] <= 1
        /\ answers[i] >= clusters[k].timesSeen
        /\ answers[i] <= clusters[k].timesSeen + 1

\* C18: distinct priorities.  The sortingIDs of the clusters are pairwise
\* distinct and are exactly 0..numClusters-1.
DistinctPriorities == PermutationOfPriorities(clusters)

\* C19: returned queue is grouped by cluster priority.  In a session over
\* clusters with the ids 0..numClusters-1, every non-empty list updateToDo
\* returns is in non-decreasing order of its items' cluster sortingID.
GroupedByPriority ==
  (GapFree /\ last \in {"bootstrap", "updateToDo"} /\ ret # <<>>) =>
    SortedBySortingID(clusters, ret)

\* C20: queue contents preserved.  The list either scheduler returns for a
\* list of distinct items is empty or a permutation of the list it was given.
QueueContentsPreserved ==
  (last \in {"bootstrap", "updateToDo"} /\ Distinct(inTodo)) =>
    (ret = <<>> \/ IsPermutation(ret, inTodo))

QueueContentsWitness ==
  /\ last = "updateToDo"
  /\ algorithm # "RandomAlgorithm"
  /\ Len(inTodo) = 3
  /\ Distinct(inTodo)
  /\ sorted # inTodo
  /\ sorted[1] = previousHead
  /\ ret # sorted
  /\ ret # <<>>
====
